---------------------------- MODULE Spec2Model ----------------------------
(***************************************************************************)
(* Model of the subtitle pipeline of Youtube-Sbv-creator:                  *)
(*   - DialogueParser.parse_file / _parse_dialogue_group                   *)
(*   - SBVConverter.convert_timecode, parse_sequence_file,                 *)
(*     _build_dialogue_index, find_matching_dialogue, create_sbv_content   *)
(*   - MainProcessor.process_all                                           *)
(* Python str values are TLA+ strings (Len, \o, SubSeq work on them); a    *)
(* character is a string of length 1.  Non-ASCII literals of the source    *)
(* are written in ASCII.                                                   *)
(***************************************************************************)
EXTENDS Integers, Sequences, FiniteSets, TLC

VARIABLES
    pc,                 \* position of the running entry point
    err,                \* exception that ended the run ("none" while running)
    premiere_time,      \* argument of a direct convert_timecode call
    tc_out,             \* its return value
    lines,              \* DialogueParser: the lines read from the data file
    i,                  \* DialogueParser.parse_file: cursor (0-based, as in the code)
    dialogues,          \* DialogueParser.dialogues
    seq_lines,          \* SBVConverter.parse_sequence_file: lines of the sequence file
    si,                 \* parse_sequence_file: cursor i (0-based)
    current_entry,      \* parse_sequence_file: current_entry (NoEntry for None)
    sequence_data,      \* SBVConverter.sequence_data
    dialogue_data,      \* SBVConverter.dialogue_data
    dialogue_index_map, \* SBVConverter.dialogue_index_map, in dict insertion order
    missing_translations, \* SBVConverter.missing_translations
    sbv,                \* language -> content returned by create_sbv_content
    japanese_text,      \* argument of a direct find_matching_dialogue call
    matched_dialogue,   \* its return value
    inputs,             \* MainProcessor: state of the two input files
    written             \* the output files written so far, in order

vars == <<pc, err, premiere_time, tc_out, lines, i, dialogues, seq_lines, si,
          current_entry, sequence_data, dialogue_data, dialogue_index_map,
          missing_translations, sbv, japanese_text, matched_dialogue,
          inputs, written>>

-----------------------------------------------------------------------------
(* Python str primitives *)

Char(s, k) == SubSeq(s, k, k)

\* str.isspace for the characters of the model's alphabet; also what \s matches
IsSpace(c) == c \in {" ", "\t", "\n", "\r"}

RECURSIVE LStrip(_)
LStrip(s) == IF Len(s) > 0 /\ IsSpace(Char(s, 1)) THEN LStrip(Tail(s)) ELSE s

RECURSIVE RStrip(_)
RStrip(s) ==
    IF Len(s) > 0 /\ IsSpace(Char(s, Len(s)))
    THEN RStrip(SubSeq(s, 1, Len(s) - 1))
    ELSE s

\* str.strip()
Strip(s) == RStrip(LStrip(s))

\* str.startswith(p)
StartsWith(s, p) == Len(s) >= Len(p) /\ SubSeq(s, 1, Len(p)) = p

\* str.find(sub) + 1: position (1-based) of the first occurrence, 0 if none
RECURSIVE FindFrom(_, _, _)
FindFrom(s, sub, k) ==
    IF k + Len(sub) - 1 > Len(s) THEN 0
    ELSE IF SubSeq(s, k, k + Len(sub) - 1) = sub THEN k
    ELSE FindFrom(s, sub, k + 1)

\* sub in s
Contains(s, sub) == FindFrom(s, sub, 1) > 0

\* str.split(sep): every occurrence of sep splits (sep is not empty)
RECURSIVE Split(_, _)
Split(s, sep) ==
    LET k == FindFrom(s, sep, 1) IN
    IF k = 0 THEN <<s>>
    ELSE <<SubSeq(s, 1, k - 1)>> \o Split(SubSeq(s, k + Len(sep), Len(s)), sep)

\* str.split(sep, 1): at most one split, at the first occurrence
Split1(s, sep) ==
    LET k == FindFrom(s, sep, 1) IN
    IF k = 0 THEN <<s>>
    ELSE <<SubSeq(s, 1, k - 1), SubSeq(s, k + Len(sep), Len(s))>>

\* sep.join(parts)
RECURSIVE Join(_, _)
Join(parts, sep) ==
    IF Len(parts) = 0 THEN ""
    ELSE IF Len(parts) = 1 THEN parts[1]
    ELSE parts[1] \o sep \o Join(Tail(parts), sep)

\* re.sub(r'\s+', '', s)
RECURSIVE RemoveWhitespace(_)
RemoveWhitespace(s) ==
    IF Len(s) = 0 THEN ""
    ELSE IF IsSpace(Char(s, 1)) THEN RemoveWhitespace(Tail(s))
    ELSE Char(s, 1) \o RemoveWhitespace(Tail(s))

\* s[:n]
Prefix(s, n) == SubSeq(s, 1, IF Len(s) < n THEN Len(s) ELSE n)

-----------------------------------------------------------------------------
(* int(str) and format(int, '0Nd') *)

Digits == "0123456789"

IsDigit(c) == Len(c) = 1 /\ Contains(Digits, c)

DigitVal(c) == FindFrom(Digits, c, 1) - 1

RECURSIVE AllDigits(_)
AllDigits(s) == Len(s) = 0 \/ (IsDigit(Char(s, 1)) /\ AllDigits(Tail(s)))

RECURSIVE DigitsVal(_, _)
DigitsVal(s, acc) ==
    IF Len(s) = 0 THEN acc ELSE DigitsVal(Tail(s), acc * 10 + DigitVal(Char(s, 1)))

\* the digits of int(s)'s literal once whitespace and sign are taken off
IntBody(s) ==
    LET t == Strip(s) IN
    IF Len(t) > 0 /\ Char(t, 1) \in {"+", "-"} THEN Tail(t) ELSE t

\* int(s) does not raise ValueError: [ws] [sign] digit+ [ws]
IntOk(s) == Len(IntBody(s)) > 0 /\ AllDigits(IntBody(s))

\* int(s), for IntOk(s)
IntVal(s) ==
    LET t == Strip(s)
        v == DigitsVal(IntBody(s), 0)
    IN  IF Len(t) > 0 /\ Char(t, 1) = "-" THEN 0 - v ELSE v

\* str(n) for n >= 0
RECURSIVE NatStr(_)
NatStr(n) == IF n < 10 THEN Char(Digits, n + 1) ELSE NatStr(n \div 10) \o Char(Digits, (n % 10) + 1)

RECURSIVE ZeroPad(_, _)
ZeroPad(s, w) == IF Len(s) >= w THEN s ELSE ZeroPad("0" \o s, w)

\* f"{n:0wd}": the sign counts in the width, the zeros go after it
FormatD(n, w) ==
    IF n < 0 THEN "-" \o ZeroPad(NatStr(0 - n), w - 1) ELSE ZeroPad(NatStr(n), w)

-----------------------------------------------------------------------------
(* IEEE-754 binary64 arithmetic, as CPython's float does it.  A positive    *)
(* double is [m |-> bits, e |-> exponent] with value m * 2^e, m a sequence  *)
(* of MantissaBits bits, most significant first.  Exact intermediate        *)
(* results are held as limbs of LimbBits bits, so that no integer of the    *)
(* model outgrows 31 bits.                                                  *)

MantissaBits == 53

LimbBits == 13

LimbBase == 2 ^ LimbBits

\* the w low bits of n, most significant first
ToBits(n, w) == [k \in 1..w |-> (n \div (2 ^ (w - k))) % 2]

\* the number a bit sequence of at most 31 bits denotes
RECURSIVE BitsVal(_)
BitsVal(b) ==
    IF Len(b) = 0 THEN 0
    ELSE IF Len(b) = 1 THEN b[1]
    ELSE LET h == Len(b) \div 2 IN
         BitsVal(SubSeq(b, 1, h)) * (2 ^ (Len(b) - h)) + BitsVal(SubSeq(b, h + 1, Len(b)))

\* a bit sequence without its leading zeros
StripZeros(b) ==
    IF \A k \in 1..Len(b) : b[k] = 0 THEN <<>>
    ELSE SubSeq(b, CHOOSE k \in 1..Len(b) : b[k] = 1 /\ \A j \in 1..(k - 1) : b[j] = 0,
                Len(b))

\* the bits of a sequence of limbs
BitsOfLimbs(ls) ==
    [k \in 1..(Len(ls) * LimbBits) |->
        (ls[((k - 1) \div LimbBits) + 1]
            \div (2 ^ (LimbBits - 1 - ((k - 1) % LimbBits)))) % 2]

\* the limbs of a bit sequence (padded with zeros on the left)
LimbsOfBits(b) ==
    LET n   == (Len(b) + LimbBits - 1) \div LimbBits
        pad == [k \in 1..(n * LimbBits - Len(b)) |-> 0] \o b
    IN  [k \in 1..n |-> BitsVal(SubSeq(pad, (k - 1) * LimbBits + 1, k * LimbBits))]

\* b + 1 on a bit sequence that is not all ones
IncBits(b) ==
    LET p == CHOOSE k \in 1..Len(b) : b[k] = 0 /\ \A j \in (k + 1)..Len(b) : b[j] = 1
    IN  [k \in 1..Len(b) |-> IF k < p THEN b[k] ELSE IF k = p THEN 1 ELSE 0]

\* round-half-to-even of q * 2^e (plus a nonzero tail below q when sticky)
\* to MantissaBits bits; q is not zero
RoundNearestEven(q0, e, sticky) ==
    LET q == StripZeros(q0) IN
    IF Len(q) <= MantissaBits THEN [m |-> q, e |-> e]
    ELSE
        LET keep  == SubSeq(q, 1, MantissaBits)
            rest  == SubSeq(q, MantissaBits + 1, Len(q))
            guard == rest[1]
            tail  == sticky \/ \E k \in 2..Len(rest) : rest[k] = 1
            up    == guard = 1 /\ (tail \/ keep[MantissaBits] = 1)
            e2    == e + Len(rest)
        IN  IF ~up THEN [m |-> keep, e |-> e2]
            ELSE IF \A k \in 1..MantissaBits : keep[k] = 1
            THEN [m |-> <<1>> \o [k \in 1..(MantissaBits - 1) |-> 0], e |-> e2 + 1]
            ELSE [m |-> IncBits(keep), e |-> e2]

\* the first n limbs of the fraction r / d (r < d), then the remainder left
RECURSIVE FracLimbs(_, _, _)
FracLimbs(r, d, n) ==
    IF n = 0 THEN <<r>>
    ELSE <<(r * LimbBase) \div d>> \o FracLimbs((r * LimbBase) % d, d, n - 1)

\* limbs of the fraction that hold a mantissa, a guard bit and the leading zeros
FracLimbCount == (MantissaBits \div LimbBits) + 2

\* float(a) / float(d) for integers a > 0 and 0 < d < 2^17
FloatDiv(a, d) ==
    LET f    == FracLimbs(a % d, d, FracLimbCount)
        frac == SubSeq(f, 1, FracLimbCount)
    IN  RoundNearestEven(ToBits(a \div d, 31) \o BitsOfLimbs(frac),
                         0 - FracLimbCount * LimbBits, f[FracLimbCount + 1] # 0)

\* limbs * c with a carry coming in from the right; c < 2^17
RECURSIVE MulLimbs(_, _, _)
MulLimbs(ls, c, carry) ==
    IF Len(ls) = 0 THEN <<carry>>
    ELSE LET t == ls[Len(ls)] * c + carry
         IN  MulLimbs(SubSeq(ls, 1, Len(ls) - 1), c, t \div LimbBase) \o <<t % LimbBase>>

\* x * float(c) for a positive double x and an integer 0 < c < 2^17
FloatMul(x, c) ==
    RoundNearestEven(BitsOfLimbs(MulLimbs(LimbsOfBits(x.m), c, 0)), x.e, FALSE)

\* int(x) for a positive double x below 2^31
FloatTrunc(x) ==
    IF x.e >= 0 THEN BitsVal(x.m \o [k \in 1..x.e |-> 0])
    ELSE IF 0 - x.e >= Len(x.m) THEN 0
    ELSE BitsVal(SubSeq(x.m, 1, Len(x.m) + x.e))

FramesPerSecond == 30

MillisPerSecond == 1000

\* the milliseconds with the quotient frames / 30 taken in integers
FramesToMilliseconds_IntegerDivision(frames) ==
    (frames \div FramesPerSecond) * MillisPerSecond

\* int((frames / 30.0) * 1000); int() truncates toward zero
FramesToMilliseconds(frames) ==
    LET a == IF frames < 0 THEN 0 - frames ELSE frames
        t == IF a = 0 THEN 0
             ELSE FloatTrunc(FloatMul(FloatDiv(a, FramesPerSecond), MillisPerSecond))
    IN  IF frames < 0 THEN 0 - t ELSE t

-----------------------------------------------------------------------------
(* SBVConverter.convert_timecode *)

FieldCount == 4

\* the body after the field-count test: int() of each field, then the f-string
FormatTimecode(parts) ==
    LET hours        == IntVal(parts[1])
        minutes      == IntVal(parts[2])
        seconds      == IntVal(parts[3])
        frames       == IntVal(parts[4])
        milliseconds == FramesToMilliseconds(frames)
    IN  FormatD(hours, 0) \o ":" \o FormatD(minutes, 2) \o ":"
            \o FormatD(seconds, 2) \o "." \o FormatD(milliseconds, 3)

\* convert_timecode raises ValueError: four fields, one of them no int literal
TimecodeRaises(t) ==
    LET parts == Split(t, ";") IN
    Len(parts) = FieldCount /\ \E k \in 1..FieldCount : ~IntOk(parts[k])

\* convert_timecode with the field-count test written as len(parts) < 4
convert_timecode_AtLeastFour(t) ==
    LET parts == Split(t, ";") IN
    IF Len(parts) < FieldCount THEN t ELSE FormatTimecode(parts)

\* the value convert_timecode returns when it does not raise
convert_timecode(t) ==
    LET parts == Split(t, ";") IN
    IF Len(parts) # FieldCount THEN t ELSE FormatTimecode(parts)

-----------------------------------------------------------------------------
(* DialogueParser._parse_dialogue_group.  Python's None is the empty        *)
(* sequence <<>> and a value v that may be None is <<v>>.                   *)

Separator == " : "

\* languages = ['ko', 'ja', 'ja_hiragana', 'en']
languages == <<"ko", "ja", "ja_hiragana", "en">>

GroupSize == 4

\* dialogue_dict = {'character': None, 'lines': {}}
EmptyDialogueDict == [character |-> <<>>, lines |-> <<>>]

\* one pass of the for loop over enumerate(lines[:4]); idx is 1-based here
GroupLine(dict, idx, raw) ==
    LET line == Strip(raw) IN
    IF line = "" THEN dict
    ELSE IF Contains(line, Separator)
    THEN LET parts     == Split1(line, Separator)
             character == Strip(parts[1])
             text      == IF Len(parts) > 1 THEN Strip(parts[2]) ELSE ""
             named     == IF idx = 1 THEN [dict EXCEPT !.character = <<character>>]
                          ELSE dict
         IN  IF idx <= Len(languages)
             THEN [named EXCEPT !.lines = (languages[idx] :> text) @@ @]
             ELSE named
    ELSE IF idx <= Len(languages)
         THEN [dict EXCEPT !.lines = (languages[idx] :> line) @@ @]
         ELSE dict

RECURSIVE GroupLoop(_, _, _)
GroupLoop(dict, idx, group) ==
    IF idx > Len(group) \/ idx > GroupSize THEN dict
    ELSE GroupLoop(GroupLine(dict, idx, group[idx]), idx + 1, group)

\* _parse_dialogue_group without the final test of the tags and the character
ParseDialogueGroup_Unchecked(group) ==
    IF Len(group) < GroupSize THEN <<>>
    ELSE LET d == GroupLoop(EmptyDialogueDict, 1, group) IN
         <<[character |-> IF d.character = <<>> THEN "" ELSE d.character[1],
            lines     |-> d.lines]>>

\* _parse_dialogue_group(lines): <<dialogue_dict>> or <<>> for None
ParseDialogueGroup(group) ==
    IF Len(group) < GroupSize THEN <<>>
    ELSE LET d == GroupLoop(EmptyDialogueDict, 1, group) IN
         IF Cardinality(DOMAIN d.lines) = 4 /\ d.character # <<>> /\ d.character[1] # ""
         THEN <<[character |-> d.character[1], lines |-> d.lines]>>
         ELSE <<>>

\* lines[a:b] of a Python list (0-based, b exclusive, clipped to the list)
Slice(list, a, b) == SubSeq(list, a + 1, IF b > Len(list) THEN Len(list) ELSE b)

-----------------------------------------------------------------------------
(* Bounds and input alphabets *)

MaxFrame == 999         \* largest frame field of a direct convert_timecode call
MaxDataLines == 8       \* longest data file (two 4-line groups)

SeqUpTo(S, n) == UNION {[1..k -> S] : k \in 0..n}

HourFields == {"00", "1"}
MinuteFields == {"00", "01", "59"}
SecondFields == {"00", "05", "24"}
FrameSamples == {"00", "15", "17", "29"}

\* HH;MM;SS;FF with every field an unsigned integer
WellFormedTimecodes ==
    {h \o ";" \o m \o ";" \o s \o ";" \o f :
        h \in HourFields, m \in MinuteFields, s \in SecondFields, f \in FrameSamples}
    \cup {"00;00;00;" \o FormatD(n, 2) : n \in 0..MaxFrame}

\* four fields that int() accepts with a sign or surrounding blanks
SignedTimecodes == {"-1;00;00;05", "00;00;00;-5", "+1;0;0;0", "00;00;24; 17"}

\* not four fields
WrongFieldCount == {"00;00;24", "00;00;24;17;01", "", "abc", "00:00:24:17", "24;17"}

\* four fields, one of them no integer
NonIntegerFields == {"aa;bb;cc;dd", "00;00;00;1x", "00;;24;17", "0.5;00;00;00"}

TimecodeInputs ==
    WellFormedTimecodes \cup SignedTimecodes \cup WrongFieldCount \cup NonIntegerFields

\* a data-file line as it was written: speaker and text, bare text, or blank
DataLineKinds ==
    { [kind |-> "speaker", speaker |-> "A", text |-> "k"],
      [kind |-> "speaker", speaker |-> "B", text |-> "e f"],
      [kind |-> "bare",    speaker |-> "",  text |-> "j"],
      [kind |-> "blank",   speaker |-> "",  text |-> ""] }

\* the raw line readlines() yields for it
DataRaw(l) ==
    IF l.kind = "speaker" THEN l.speaker \o Separator \o l.text \o "\n"
    ELSE IF l.kind = "bare" THEN "  " \o l.text \o " \n"
    ELSE " \n"

DataLineSet == {DataRaw(l) : l \in DataLineKinds}

\* the line as written, from its raw form (DataRaw is one-to-one)
DataLineOf(raw) == CHOOSE l \in DataLineKinds : DataRaw(l) = raw

Tags == {"ko", "en", "ja"}

NoMisses == [t \in Tags |-> 0]
NotRendered == [t \in Tags |-> <<>>]

IdleTimecode == premiere_time = "" /\ tc_out = ""
IdleParser == lines = <<>> /\ i = 0 /\ dialogues = <<>>
IdleSequence ==
    seq_lines = <<>> /\ si = 0 /\ current_entry = <<>> /\ sequence_data = <<>>
\* both input files selected and readable, nothing written
InputsOk == [data |-> "ok", sequence |-> "ok"]
IdleFiles == inputs = InputsOk /\ written = <<>>

IdleConverter ==
    /\ dialogue_data = <<>> /\ dialogue_index_map = <<>>
    /\ missing_translations = NoMisses /\ sbv = NotRendered
    /\ japanese_text = "" /\ matched_dialogue = <<>>

-----------------------------------------------------------------------------
(* A direct call of SBVConverter.convert_timecode *)

InitTimecode ==
    /\ pc = "convert_timecode" /\ err = "none"
    /\ premiere_time \in TimecodeInputs /\ tc_out = ""
    /\ IdleParser /\ IdleSequence /\ IdleConverter
    /\ IdleFiles

ConvertTimecode ==
    /\ pc = "convert_timecode"
    /\ IF TimecodeRaises(premiere_time)
       THEN pc' = "raised" /\ err' = "ValueError" /\ UNCHANGED tc_out
       ELSE pc' = "returned" /\ tc_out' = convert_timecode(premiere_time)
                /\ UNCHANGED err
    /\ UNCHANGED <<premiere_time, lines, i, dialogues, seq_lines, si,
                   current_entry, sequence_data, dialogue_data,
                   dialogue_index_map, missing_translations, sbv,
                   japanese_text, matched_dialogue>>
    /\ UNCHANGED <<inputs, written>>

NextTimecode == ConvertTimecode

SpecTimecode == InitTimecode /\ [][NextTimecode]_vars

-----------------------------------------------------------------------------
(* DialogueParser.parse_file *)

InitParse ==
    /\ pc = "parse_file" /\ err = "none"
    /\ lines \in SeqUpTo(DataLineSet, MaxDataLines)
    /\ i = 0 /\ dialogues = <<>>
    /\ IdleTimecode /\ IdleSequence /\ IdleConverter
    /\ IdleFiles

\* i after one pass of the while loop, and the record it appended (or <<>>)
ParseFileGroup(ls, k) ==
    LET first_line == Strip(ls[k + 1]) IN
    IF first_line # "" /\ Contains(first_line, Separator)
    THEN ParseDialogueGroup(Slice(ls, k, k + 4))
    ELSE <<>>

\* the cursor moving on by four lines after every pass
ParseFileAdvance_ByFour(k, dialogue_group) == k + 4

\* the cursor moving on by one line after a record too
ParseFileAdvance_ByOne(k, dialogue_group) == k + 1

\* the cursor after a pass that produced dialogue_group (<<>> for None)
ParseFileAdvance(k, dialogue_group) == IF dialogue_group # <<>> THEN k + 4 ELSE k + 1

\* one pass of the while loop of parse_file
ParseFileStep ==
    /\ pc = "parse_file"
    /\ i < Len(lines)
    /\ LET dialogue_group == ParseFileGroup(lines, i) IN
        /\ dialogues' = dialogues \o dialogue_group
        /\ i' = ParseFileAdvance(i, dialogue_group)
    /\ UNCHANGED <<pc, err, premiere_time, tc_out, lines, seq_lines, si,
                   current_entry, sequence_data, dialogue_data,
                   dialogue_index_map, missing_translations, sbv,
                   japanese_text, matched_dialogue>>
    /\ UNCHANGED <<inputs, written>>

\* the loop ends: return self.dialogues
ParseFileReturn ==
    /\ pc = "parse_file"
    /\ i >= Len(lines)
    /\ pc' = "parsed"
    /\ UNCHANGED <<err, premiere_time, tc_out, lines, i, dialogues, seq_lines,
                   si, current_entry, sequence_data, dialogue_data,
                   dialogue_index_map, missing_translations, sbv,
                   japanese_text, matched_dialogue>>
    /\ UNCHANGED <<inputs, written>>

NextParse == ParseFileStep \/ ParseFileReturn

SpecParse == InitParse /\ [][NextParse]_vars

-----------------------------------------------------------------------------
(* SBVConverter.parse_sequence_file *)

MaxSeqLines == 4        \* longest sequence file of the timeline specification

\* ' - ' in line and ';' in line
IsTimecodeLine(line) == Contains(line, " - ") /\ Contains(line, ";")

\* line.startswith('V') and ',' in line
IsSpeakerTag(line) == StartsWith(line, "V") /\ Contains(line, ",")

\* the inner while loop going on over blank lines
RECURSIVE CollectEnd_PastBlank(_, _)
CollectEnd_PastBlank(ls, j) ==
    IF j >= Len(ls) THEN j
    ELSE LET next_line == Strip(ls[j + 1]) IN
         IF IsSpeakerTag(next_line) \/ IsTimecodeLine(next_line)
         THEN j
         ELSE CollectEnd_PastBlank(ls, j + 1)

\* the inner while loop: the first j >= k (0-based) at which collection stops
RECURSIVE CollectEnd(_, _)
CollectEnd(ls, j) ==
    IF j >= Len(ls) THEN j
    ELSE LET next_line == Strip(ls[j + 1]) IN
         IF next_line = "" \/ IsSpeakerTag(next_line) \/ IsTimecodeLine(next_line)
         THEN j
         ELSE CollectEnd(ls, j + 1)

\* text_lines: the stripped lines a .. b-1 (0-based)
CollectedLines(ls, a, b) == [k \in 1..(b - a) |-> Strip(ls[a + k])]

\* the speaker-tag branch: current_entry after the tag line at k (0-based)
TagEntry(entry, ls, k) ==
    LET line         == Strip(ls[k + 1])
        parts        == Split(line, ",")
        speaker_type == Strip(parts[1])
        speaker_num  == IF Len(parts) > 1 THEN Strip(parts[2]) ELSE "1"
        j            == CollectEnd(ls, k + 1)
        text_lines   == CollectedLines(ls, k + 1, j)
    IN  IF text_lines # <<>> /\ entry # <<>>
        THEN <<[entry[1] EXCEPT !.texts =
                  Append(@, [speaker |-> speaker_type \o "_" \o speaker_num,
                             text    |-> Join(text_lines, " ")])]>>
        ELSE entry

\* the append of current_entry without the test of its texts
Flush_KeepEmpty(data, entry) == IF entry # <<>> THEN Append(data, entry[1]) ELSE data

\* if current_entry and current_entry.get('texts'): sequence_data.append(...)
Flush(data, entry) ==
    IF entry # <<>> /\ entry[1].texts # <<>> THEN Append(data, entry[1]) ELSE data

\* the timecode branch raises: two tokens, one of them makes convert_timecode raise
MarkerRaises(line) ==
    LET times == Split(line, " - ") IN
    Len(times) = 2 /\ (TimecodeRaises(times[1]) \/ TimecodeRaises(times[2]))

\* one pass of the outer while loop
ParseSequenceStep ==
    /\ pc = "parse_sequence_file"
    /\ si < Len(seq_lines)
    /\ LET line == Strip(seq_lines[si + 1]) IN
       IF IsTimecodeLine(line)
       THEN LET times == Split(line, " - ") IN
            IF Len(times) # 2
            THEN si' = si + 1
                 /\ UNCHANGED <<pc, err, current_entry, sequence_data>>
            ELSE IF MarkerRaises(line)
            THEN pc' = "raised" /\ err' = "ValueError"
                 /\ UNCHANGED <<si, current_entry, sequence_data>>
            ELSE /\ sequence_data' = Flush(sequence_data, current_entry)
                 /\ current_entry' = <<[start |-> convert_timecode(times[1]),
                                        end   |-> convert_timecode(times[2]),
                                        texts |-> <<>>]>>
                 /\ si' = si + 1
                 /\ UNCHANGED <<pc, err>>
       ELSE IF IsSpeakerTag(line)
       THEN /\ current_entry' = TagEntry(current_entry, seq_lines, si)
            /\ si' = CollectEnd(seq_lines, si + 1)
            /\ UNCHANGED <<pc, err, sequence_data>>
       ELSE si' = si + 1 /\ UNCHANGED <<pc, err, current_entry, sequence_data>>
    /\ UNCHANGED <<premiere_time, tc_out, lines, i, dialogues, seq_lines,
                   dialogue_data, dialogue_index_map, missing_translations,
                   sbv, japanese_text, matched_dialogue>>
    /\ UNCHANGED <<inputs, written>>

\* after the loop: the last entry is stored and the method returns
ParseSequenceReturn ==
    /\ pc = "parse_sequence_file"
    /\ si >= Len(seq_lines)
    /\ sequence_data' = Flush(sequence_data, current_entry)
    /\ pc' = "sequence_parsed"
    /\ UNCHANGED <<err, premiere_time, tc_out, lines, i, dialogues, seq_lines,
                   si, current_entry, dialogue_data, dialogue_index_map,
                   missing_translations, sbv, japanese_text, matched_dialogue>>
    /\ UNCHANGED <<inputs, written>>

\* lines of a sequence file
SeqLineSet ==
    { "00;00;24;17 - 00;00;29;15\n",    \* timecode marker
      "00;00;24 - 00;00;29;15\n",       \* start token with three fields
      "00;00;29;15 - 29.5\n",           \* end token with one field
      "aa;bb;cc;dd - 00;00;29;15\n",    \* four fields, no integers
      "V5, 1\n",                        \* speaker tag
      "V7,\n",                          \* speaker tag without a number
      "x y\n",                          \* text
      "a - b - c;d\n",                  \* text with ' - ' and ';', three tokens
      "\n" }                            \* blank

InitSequence ==
    /\ pc = "parse_sequence_file" /\ err = "none"
    /\ seq_lines \in SeqUpTo(SeqLineSet, MaxSeqLines)
    /\ si = 0 /\ current_entry = <<>> /\ sequence_data = <<>>
    /\ IdleTimecode /\ IdleParser /\ IdleConverter
    /\ IdleFiles

\* convert_timecode called directly, or through parse_sequence_file
InitTimeline == InitTimecode \/ InitSequence

NextTimeline == ConvertTimecode \/ ParseSequenceStep \/ ParseSequenceReturn

SpecTimeline == InitTimeline /\ [][NextTimeline]_vars

-----------------------------------------------------------------------------
(* SBVConverter._build_dialogue_index, find_matching_dialogue and           *)
(* create_sbv_content.  dialogue_index_map is the sequence of its items     *)
(* [key, idx] in dict order: a new key goes to the end, an assignment to a  *)
(* key already there keeps its place.                                       *)

MaxRecords == 2         \* most records of a dialogue set drawn directly
MaxCues == 2            \* most cues of a sequence drawn directly

FallbackPrefixLen == 50

SnippetLen == 30

\* an index that keeps the first record of a key
IndexPut_KeepFirst(map, key, idx) ==
    IF \E p \in 1..Len(map) : map[p].key = key
    THEN map
    ELSE Append(map, [key |-> key, idx |-> idx])

\* dialogue_index_map[key] = idx
IndexPut(map, key, idx) ==
    IF \E p \in 1..Len(map) : map[p].key = key
    THEN [p \in 1..Len(map) |-> IF map[p].key = key THEN [key |-> key, idx |-> idx]
                                 ELSE map[p]]
    ELSE Append(map, [key |-> key, idx |-> idx])

\* the for loop of _build_dialogue_index from record idx (0-based) on
RECURSIVE BuildIndexFrom(_, _, _)
BuildIndexFrom(map, data, idx) ==
    IF idx >= Len(data) THEN map
    ELSE BuildIndexFrom(
            IndexPut(map, RemoveWhitespace(data[idx + 1].lines["ja"]), idx),
            data, idx + 1)

\* an index keyed by the ja text as written, one item per record
BuildDialogueIndex_Unstripped(data) ==
    [k \in 1..Len(data) |-> [key |-> data[k].lines["ja"], idx |-> k - 1]]

BuildDialogueIndex(data) == BuildIndexFrom(<<>>, data, 0)

\* the items whose key is the normalized text
ExactItems(map, normalized) == {p \in 1..Len(map) : map[p].key = normalized}

\* the fallback test on the whole query, not its first 50 characters
FallbackItems_WholeQuery(map, normalized) ==
    {p \in 1..Len(map) :
        \/ Contains(map[p].key, normalized)
        \/ Contains(normalized, map[p].key)}

\* the items the fallback loop accepts
FallbackItems(map, normalized) ==
    {p \in 1..Len(map) :
        \/ Contains(map[p].key, Prefix(normalized, FallbackPrefixLen))
        \/ Contains(normalized, map[p].key)}

First(S) == CHOOSE p \in S : \A q \in S : p <= q

\* find_matching_dialogue without the exact lookup: the fallback loop alone
FindMatchingDialogue_FallbackOnly(map, data, text) ==
    LET normalized == RemoveWhitespace(text) IN
    IF FallbackItems(map, normalized) # {}
    THEN <<data[map[First(FallbackItems(map, normalized))].idx + 1]>>
    ELSE <<>>

\* find_matching_dialogue(japanese_text): <<record>> or <<>> for None
FindMatchingDialogue(map, data, text) ==
    LET normalized == RemoveWhitespace(text) IN
    IF ExactItems(map, normalized) # {}
    THEN <<data[map[First(ExactItems(map, normalized))].idx + 1]>>
    ELSE IF FallbackItems(map, normalized) # {}
    THEN <<data[map[First(FallbackItems(map, normalized))].idx + 1]>>
    ELSE <<>>

\* the placeholder carrying the whole text
Placeholder_Untruncated(text) == "[NoTranslation: " \o text \o "...]"

\* f"[...: {japanese_text[:30]}...]" (the Korean words for 'no translation'
\* are written in ASCII)
Placeholder(text) == "[NoTranslation: " \o Prefix(text, SnippetLen) \o "...]"

\* what one text_entry appends to caption_texts
CaptionOf(map, data, text, language) ==
    LET matched == FindMatchingDialogue(map, data, text) IN
    IF matched # <<>>
    THEN IF language \in DOMAIN matched[1].lines
         THEN <<matched[1].lines[language]>>
         ELSE <<>>
    ELSE IF language = "ja" THEN <<text>>
    ELSE <<Placeholder(text)>>

\* what one text_entry adds to missing_count
MissOf(map, data, text, language) ==
    IF FindMatchingDialogue(map, data, text) = <<>> /\ language # "ja" THEN 1 ELSE 0

RECURSIVE CaptionTexts(_, _, _, _)
CaptionTexts(map, data, texts, language) ==
    IF texts = <<>> THEN <<>>
    ELSE CaptionOf(map, data, texts[1].text, language)
            \o CaptionTexts(map, data, Tail(texts), language)

RECURSIVE MissingInTexts(_, _, _, _)
MissingInTexts(map, data, texts, language) ==
    IF texts = <<>> THEN 0
    ELSE MissOf(map, data, texts[1].text, language)
            + MissingInTexts(map, data, Tail(texts), language)

\* the three sbv_lines of one entry
EntryLines(map, data, entry, language) ==
    LET caption_texts == CaptionTexts(map, data, entry.texts, language) IN
    << entry.start \o "," \o entry.end,
       IF caption_texts # <<>> THEN Join(caption_texts, "\n") ELSE "",
       "" >>

RECURSIVE SbvLines(_, _, _, _)
SbvLines(map, data, entries, language) ==
    IF entries = <<>> THEN <<>>
    ELSE EntryLines(map, data, entries[1], language)
            \o SbvLines(map, data, Tail(entries), language)

RECURSIVE MissingCount(_, _, _, _)
MissingCount(map, data, entries, language) ==
    IF entries = <<>> THEN 0
    ELSE MissingInTexts(map, data, entries[1].texts, language)
            + MissingCount(map, data, Tail(entries), language)

\* the order in which process_all and save_sbv_files render the languages
RenderOrder == <<"ko", "en", "ja">>

\* the languages still to render
Pending == {k \in 1..Len(RenderOrder) : sbv[RenderOrder[k]] = <<>>}

\* create_sbv_content(language) for the next language of the loop, and what
\* it stores in the converter
CreateSbvContentCall ==
    /\ pc = "sequence_parsed"
    /\ Pending # {}
    /\ LET language == RenderOrder[First(Pending)] IN
        /\ sbv' = [sbv EXCEPT ![language] =
                     <<Join(SbvLines(dialogue_index_map, dialogue_data,
                                     sequence_data, language), "\n")>>]
        /\ missing_translations' =
              [missing_translations EXCEPT ![language] =
                  MissingCount(dialogue_index_map, dialogue_data,
                               sequence_data, language)]
        /\ pc' = IF Pending = {First(Pending)} THEN "done" ELSE pc
    /\ UNCHANGED <<err, premiere_time, tc_out, lines, i, dialogues, seq_lines,
                   si, current_entry, sequence_data, dialogue_data,
                   dialogue_index_map, japanese_text, matched_dialogue>>

\* a direct call of create_sbv_content: no file is touched
CreateSbvContent == CreateSbvContentCall /\ UNCHANGED <<inputs, written>>

\* a direct call of find_matching_dialogue
FindMatchingDialogueCall ==
    /\ pc = "find_matching_dialogue"
    /\ matched_dialogue' =
          FindMatchingDialogue(dialogue_index_map, dialogue_data, japanese_text)
    /\ pc' = "returned"
    /\ UNCHANGED <<err, premiere_time, tc_out, lines, i, dialogues, seq_lines,
                   si, current_entry, sequence_data, dialogue_data,
                   dialogue_index_map, missing_translations, sbv,
                   japanese_text>>
    /\ UNCHANGED <<inputs, written>>

\* a record as parse_file builds it, written down with source text ja and mark n
Record(speaker, ja, n) ==
    [character |-> speaker,
     lines     |-> [t \in {"ko", "ja", "ja_hiragana", "en"} |->
                      CASE t = "ko" -> "K" \o n
                        [] t = "ja" -> ja
                        [] t = "ja_hiragana" -> "H" \o n
                        [] t = "en" -> "E" \o n]]

RecordSet == {Record("A", ja, n) : ja \in {"a b", "abc"}, n \in {"1", "2"}}

\* a text of more than SnippetLen characters that matches no record
LongText == "0123456789 0123456789 0123456789"

\* a source text of more than FallbackPrefixLen characters, and a query that
\* shares its first FallbackPrefixLen characters only
LongKey == "0123456789012345678901234567890123456789012345678901"
LongQuery == "01234567890123456789012345678901234567890123456789zz"

\* the records of a dialogue set queried directly
MatchRecordSet == RecordSet \cup {Record("B", LongKey, "3")}

\* texts of cue entries and of direct queries
QuerySet == {"ab", "a b", " a  b\t", "abc", "b", "abcd", "zz", LongText, LongQuery}

Entry(text) == [speaker |-> "V5_1", text |-> text]

CueSet ==
    { [start |-> "0:00:24.566", end |-> "0:00:29.500", texts |-> <<Entry("a b")>>],
      [start |-> "0:00:36.300", end |-> "0:01:05.500",
       texts |-> <<Entry("ab"), Entry(LongText)>>],
      [start |-> "00;00;24", end |-> "0:00:29.500",
       texts |-> <<Entry("zz"), Entry("abc"), Entry(LongText)>>],
      [start |-> "0:00:00.000", end |-> "0:00:24.566",
       texts |-> <<Entry("b"), Entry("zz")>>] }

InitMatch ==
    /\ pc = "find_matching_dialogue" /\ err = "none"
    /\ dialogue_data \in SeqUpTo(MatchRecordSet, MaxRecords)
    /\ dialogue_index_map = BuildDialogueIndex(dialogue_data)
    /\ japanese_text \in QuerySet /\ matched_dialogue = <<>>
    /\ missing_translations = NoMisses /\ sbv = NotRendered
    /\ IdleTimecode /\ IdleParser /\ IdleSequence
    /\ IdleFiles

NextMatch == FindMatchingDialogueCall

SpecMatch == InitMatch /\ [][NextMatch]_vars

\* a converter whose sequence file has been parsed
InitRender ==
    /\ pc = "sequence_parsed" /\ err = "none"
    /\ dialogue_data \in SeqUpTo(RecordSet, MaxRecords)
    /\ dialogue_index_map = BuildDialogueIndex(dialogue_data)
    /\ sequence_data \in SeqUpTo(CueSet, MaxCues)
    /\ seq_lines = <<>> /\ si = 0 /\ current_entry = <<>>
    /\ missing_translations = NoMisses /\ sbv = NotRendered
    /\ japanese_text = "" /\ matched_dialogue = <<>>
    /\ IdleTimecode /\ IdleParser
    /\ IdleFiles

NextRender == CreateSbvContent

SpecRender == InitRender /\ [][NextRender]_vars

-----------------------------------------------------------------------------
(* MainProcessor.process_all: parse_file, SBVConverter(...),                *)
(* parse_sequence_file, then create_sbv_content for ko, en and ja.  The two *)
(* input files are read whole by readlines().                               *)

\* select_files_gui / select_files_default: a file that was not selected (or
\* not found by the glob) ends the run before process_all; GUI_AVAILABLE
\* decides between ValueError and FileNotFoundError
SelectFiles ==
    /\ pc = "select_files"
    /\ IF inputs.data = "unselected" \/ inputs.sequence = "unselected"
       THEN pc' = "raised" /\ err' \in {"ValueError", "FileNotFoundError"}
       ELSE pc' = "open_data_file" /\ UNCHANGED err
    /\ UNCHANGED <<premiere_time, tc_out, lines, i, dialogues, seq_lines, si,
                   current_entry, sequence_data, dialogue_data,
                   dialogue_index_map, missing_translations, sbv,
                   japanese_text, matched_dialogue, inputs, written>>

\* parse_file: with open(self.input_file, 'r', encoding='utf-8') as f
ParseFileOpen ==
    /\ pc = "open_data_file"
    /\ IF inputs.data = "unreadable"
       THEN pc' = "raised" /\ err' \in {"FileNotFoundError", "PermissionError"}
       ELSE pc' = "parse_file" /\ UNCHANGED err
    /\ UNCHANGED <<premiere_time, tc_out, lines, i, dialogues, seq_lines, si,
                   current_entry, sequence_data, dialogue_data,
                   dialogue_index_map, missing_translations, sbv,
                   japanese_text, matched_dialogue, inputs, written>>

JsonFile == "dialogues.json"
SbvFile(language) == "captions_" \o language \o ".sbv"

\* process_all: json.dump(output_data, f, ...) into <stem>_dialogues.json
WriteJson ==
    /\ pc = "parsed"
    /\ written' = Append(written, JsonFile)
    /\ pc' = "json_written"
    /\ UNCHANGED <<err, premiere_time, tc_out, lines, i, dialogues, seq_lines,
                   si, current_entry, sequence_data, dialogue_data,
                   dialogue_index_map, missing_translations, sbv,
                   japanese_text, matched_dialogue, inputs>>

\* converter = SBVConverter(self.sequence_file, self.dialogue_data)
NewConverter ==
    /\ pc = "json_written"
    /\ dialogue_data' = dialogues
    /\ dialogue_index_map' = BuildDialogueIndex(dialogues)
    /\ sequence_data' = <<>>
    /\ missing_translations' = NoMisses
    /\ pc' = "open_sequence_file"
    /\ UNCHANGED <<err, premiere_time, tc_out, lines, i, dialogues, seq_lines,
                   si, current_entry, sbv, japanese_text, matched_dialogue>>
    /\ UNCHANGED <<inputs, written>>

\* parse_sequence_file: with open(self.sequence_file, 'r', encoding='utf-8') as f
ParseSequenceOpen ==
    /\ pc = "open_sequence_file"
    /\ IF inputs.sequence = "unreadable"
       THEN pc' = "raised" /\ err' \in {"FileNotFoundError", "PermissionError"}
       ELSE pc' = "parse_sequence_file" /\ UNCHANGED err
    /\ UNCHANGED <<premiere_time, tc_out, lines, i, dialogues, seq_lines, si,
                   current_entry, sequence_data, dialogue_data,
                   dialogue_index_map, missing_translations, sbv,
                   japanese_text, matched_dialogue, inputs, written>>

\* the body of the loop over the languages in process_all: create_sbv_content
\* and f.write(sbv_content) into <stem>_captions_<lang>.sbv
SaveSbvFile ==
    /\ CreateSbvContentCall
    /\ written' = Append(written, SbvFile(RenderOrder[First(Pending)]))
    /\ UNCHANGED inputs

\* what can be the matter with an input file
InputStates == {"ok", "unselected", "unreadable"}

\* source texts of the records of a script
JaSamples == {"ab", "a b", "abc"}

\* the four lines of a group: every line with the speaker, or only the first
ScriptGroup(speaker, ja, n, style) ==
    IF style = "speaker"
    THEN << speaker \o Separator \o "K" \o n \o "\n",
            speaker \o Separator \o ja \o "\n",
            speaker \o Separator \o "H" \o n \o "\n",
            speaker \o Separator \o "E" \o n \o "\n" >>
    ELSE << speaker \o Separator \o "K" \o n \o "\n",
            "  " \o ja \o " \n",
            "H" \o n \o "\n",
            "E" \o n \o "\n" >>

\* the text lines under a speaker tag: the text as it is, padded with blanks,
\* or broken after its first character
TextBlock(ja, form) ==
    CASE form = "same"   -> << ja \o "\n" >>
      [] form = "padded" -> << " " \o ja \o "\t\n" >>
      [] form = "broken" -> << SubSeq(ja, 1, 1) \o "\n",
                               SubSeq(ja, 2, Len(ja)) \o "\n" >>

Gap(blank) == IF blank THEN << "\n" >> ELSE << >>

\* a data file of two groups and a sequence file of one marker and two tags
ScenarioSet ==
    { [ script   |-> ScriptGroup(s1, ja1, "1", st1) \o Gap(g1)
                       \o ScriptGroup(IF s1 = "A" THEN "B" ELSE "A", ja2, "2", st2),
        timeline |-> << "00;00;24;17 - 00;00;29;15\n", "V5, 1\n" >>
                       \o TextBlock(ja1, f1) \o Gap(g2)
                       \o << "V7, 2\n" >> \o TextBlock(ja2, f2) ] :
        s1 \in {"A", "B"}, ja1 \in JaSamples, ja2 \in JaSamples,
        st1 \in {"speaker", "bare"}, st2 \in {"speaker", "bare"},
        g1 \in BOOLEAN, g2 \in BOOLEAN,
        f1 \in {"same", "padded", "broken"}, f2 \in {"same", "padded", "broken"} }

\* a file that is not there has no lines
Init ==
    /\ pc = "select_files" /\ err = "none"
    /\ inputs \in [data : InputStates, sequence : InputStates]
    /\ written = <<>>
    /\ \E sc \in ScenarioSet :
          /\ lines = IF inputs.data = "ok" THEN sc.script ELSE <<>>
          /\ seq_lines = IF inputs.sequence = "ok" THEN sc.timeline ELSE <<>>
    /\ i = 0 /\ dialogues = <<>>
    /\ si = 0 /\ current_entry = <<>> /\ sequence_data = <<>>
    /\ IdleTimecode /\ IdleConverter

Next ==
    \/ SelectFiles
    \/ ParseFileOpen
    \/ ParseFileStep
    \/ ParseFileReturn
    \/ WriteJson
    \/ NewConverter
    \/ ParseSequenceOpen
    \/ ParseSequenceStep
    \/ ParseSequenceReturn
    \/ SaveSbvFile

Spec == Init /\ [][Next]_vars

-----------------------------------------------------------------------------
(* The two scans, parse_file and parse_sequence_file.  Python goes on        *)
(* executing a loop whose condition holds and a return that is reached:     *)
(* weak fairness of the two returns and of the loop passes, the latter      *)
(* written out with the conditions of the two while statements, which are   *)
(* what enables a pass.                                                     *)

MaxScanDataLines == 6   \* longest data file of the scan specification
MaxScanSeqLines == 4    \* longest sequence file of the scan specification

\* lines of the sequence files that are scanned: a marker, a marker that
\* does not convert, a tag, two kinds of text and a blank line
ScanSeqLineSet ==
    { "00;00;24;17 - 00;00;29;15\n",
      "aa;bb;cc;dd - 00;00;29;15\n",
      "V5, 1\n",
      "x y\n",
      "a - b - c;d\n",
      "\n" }

InitScan ==
    \/ /\ pc = "parse_file" /\ err = "none"
       /\ lines \in SeqUpTo(DataLineSet, MaxScanDataLines)
       /\ i = 0 /\ dialogues = <<>>
       /\ IdleTimecode /\ IdleSequence /\ IdleConverter
       /\ IdleFiles
    \/ /\ pc = "parse_sequence_file" /\ err = "none"
       /\ seq_lines \in SeqUpTo(ScanSeqLineSet, MaxScanSeqLines)
       /\ si = 0 /\ current_entry = <<>> /\ sequence_data = <<>>
       /\ IdleTimecode /\ IdleParser /\ IdleConverter
       /\ IdleFiles

NextScan ==
    \/ ParseFileStep
    \/ ParseFileReturn
    \/ ParseSequenceStep
    \/ ParseSequenceReturn

\* the condition of the while statement of the scan that is running
LoopCondition ==
    \/ pc = "parse_file" /\ i < Len(lines)
    \/ pc = "parse_sequence_file" /\ si < Len(seq_lines)

SpecScan ==
    /\ InitScan /\ [][NextScan]_vars
    /\ WF_vars(ParseFileReturn) /\ WF_vars(ParseSequenceReturn)
    /\ ([]<>~LoopCondition \/ []<><<LoopCondition>>_vars)

-----------------------------------------------------------------------------
(* Properties *)

\* the fields of a token are four unsigned integers
UnsignedFields(t) ==
    LET parts == Split(t, ";") IN
    Len(parts) = FieldCount
        /\ \A k \in 1..FieldCount : Len(parts[k]) > 0 /\ AllDigits(parts[k])

\* C1: convert_timecode("00;00;24;17") returns "0:00:24.170".
C1_DocumentedExample ==
    (pc = "returned" /\ premiere_time = "00;00;24;17") => tc_out = "0:00:24.170"

\* C2: for four unsigned integer fields HH;MM;SS;FF the result is H:MM:SS.mmm,
\* hours unpadded, minutes and seconds padded to 2 digits, mmm the floor of
\* FF * 1000 / 30 padded to 3 digits; "00;01;05;15" gives "0:01:05.500".
C2_FloorOfExactQuotient ==
    (pc = "returned" /\ UnsignedFields(premiere_time)) =>
        LET parts == Split(premiere_time, ";") IN
        /\ tc_out = FormatD(DigitsVal(parts[1], 0), 0) \o ":"
                    \o FormatD(DigitsVal(parts[2], 0), 2) \o ":"
                    \o FormatD(DigitsVal(parts[3], 0), 2) \o "."
                    \o FormatD((DigitsVal(parts[4], 0) * 1000) \div 30, 3)
        /\ (premiere_time = "00;01;05;15" => tc_out = "0:01:05.500")

\* the timecode line the cursor of parse_sequence_file is on has two tokens
AtMarker ==
    /\ pc = "parse_sequence_file" /\ si < Len(seq_lines)
    /\ IsTimecodeLine(Strip(seq_lines[si + 1]))
    /\ Len(Split(Strip(seq_lines[si + 1]), " - ")) = 2

MarkerToken(k) == Split(Strip(seq_lines[si + 1]), " - ")[k]

\* a direct call of convert_timecode has returned or raised
DirectCallEnded == pc \in {"returned", "raised"} /\ seq_lines = <<>>

\* C9: an input that does not split on ';' into exactly 4 fields is returned
\* unchanged and raises nothing, and the cue that parse_sequence_file opens at
\* a marker holds such a token, as it stands, as its start or its end.
C9_MalformedPassesThrough ==
    /\ []((DirectCallEnded /\ Len(Split(premiere_time, ";")) # FieldCount) =>
            (pc = "returned" /\ tc_out = premiere_time))
    /\ [][(AtMarker /\ pc' = pc) =>
            /\ current_entry' # <<>>
            /\ (Len(Split(MarkerToken(1), ";")) # FieldCount =>
                    current_entry'[1].start = MarkerToken(1))
            /\ (Len(Split(MarkerToken(2), ";")) # FieldCount =>
                    current_entry'[1].end = MarkerToken(2))]_vars

\* C9 witness: a cue opened with the three-field start token kept as it is
\* and the well-formed end token converted
C9_Witness ==
    /\ current_entry # <<>>
    /\ current_entry[1].start = "00;00;24"
    /\ current_entry[1].end = "0:00:29.500"

\* C10: parse_sequence_file runs to completion on every sequence file: no
\* marker line, whatever its tokens, ends it with an exception.
C10_NeverAborts == ~(pc = "raised" /\ seq_lines # <<>>)

\* the kind a raw data line was written as
KindOf(raw) == DataLineOf(raw).kind

\* the data file is nothing but well-formed 4-line groups and blank lines
\* between them: first line 'speaker : text', the other three 'speaker : text'
\* or bare text
RECURSIVE WellFormedScript(_)
WellFormedScript(ls) ==
    IF Len(ls) = 0 THEN TRUE
    ELSE IF KindOf(ls[1]) = "blank" THEN WellFormedScript(Tail(ls))
    ELSE /\ Len(ls) >= 4
         /\ KindOf(ls[1]) = "speaker"
         /\ \A k \in 2..4 : KindOf(ls[k]) \in {"speaker", "bare"}
         /\ WellFormedScript(SubSeq(ls, 5, Len(ls)))

\* its groups, in input order
RECURSIVE GroupsOf(_)
GroupsOf(ls) ==
    IF Len(ls) = 0 THEN <<>>
    ELSE IF KindOf(ls[1]) = "blank" THEN GroupsOf(Tail(ls))
    ELSE <<SubSeq(ls, 1, 4)>> \o GroupsOf(SubSeq(ls, 5, Len(ls)))

\* the record a group was written to give
RecordOf(g) ==
    [character |-> DataLineOf(g[1]).speaker,
     lines     |-> [t \in {"ko", "ja", "ja_hiragana", "en"} |->
                      DataLineOf(g[CASE t = "ko" -> 1 [] t = "ja" -> 2
                                     [] t = "ja_hiragana" -> 3 [] t = "en" -> 4]).text]]

\* C3: for a data file of well-formed 4-line groups, parse_file returns one
\* record per group, in the order of the groups, with the speaker of line 0
\* and the texts of lines 0..3 as ko, ja, ja_hiragana, en.
C3_WellFormedGroupsRecovered ==
    (pc = "parsed" /\ WellFormedScript(lines)) =>
        dialogues = [k \in 1..Len(GroupsOf(lines)) |-> RecordOf(GroupsOf(lines)[k])]

\* C3 witness: two groups of different speakers, parsed to two records
C3_Witness ==
    /\ pc = "parsed" /\ WellFormedScript(lines)
    /\ Len(dialogues) = 2
    /\ dialogues[1].character # dialogues[2].character
    /\ dialogues[1].lines["ko"] # dialogues[1].lines["ja"]

\* the four lines at the cursor are there, none blank, the first with a speaker
FullGroupAtCursor ==
    /\ i + 4 <= Len(lines)
    /\ KindOf(lines[i + 1]) = "speaker"
    /\ \A k \in 2..4 : KindOf(lines[i + k]) # "blank"

\* C4: every record of parse_file has all four language tags populated and a
\* non-empty speaker; a record is appended only for four non-blank lines that
\* are all there (a span with a blank line or cut by the end of input gives
\* none), and the drop raises nothing.
C4_OnlyCompleteRecords ==
    /\ [](/\ err = "none"
          /\ \A k \in 1..Len(dialogues) :
                /\ DOMAIN dialogues[k].lines = {"ko", "ja", "ja_hiragana", "en"}
                /\ \A t \in DOMAIN dialogues[k].lines : dialogues[k].lines[t] # ""
                /\ dialogues[k].character # "")
    /\ [][(Len(dialogues') > Len(dialogues)) => FullGroupAtCursor]_vars

\* C4 witness: the group at line 0 has a blank second line and is dropped, a
\* later group is kept, and the parse has returned
C4_Witness ==
    /\ pc = "parsed" /\ err = "none"
    /\ Len(lines) >= 2
    /\ KindOf(lines[1]) = "speaker" /\ KindOf(lines[2]) = "blank"
    /\ Len(dialogues) = 1

\* the source text of a record, whitespace removed
JaKey(r) == RemoveWhitespace(r.lines["ja"])

\* C5: when the query and the ja text of some record are equal once all
\* whitespace is removed, find_matching_dialogue returns a record whose
\* stripped ja text is the stripped query: not None, and not a record that
\* only the substring fallback would give.
C5_NormalizedEqualIsFound ==
    (/\ pc = "returned" /\ dialogue_data # <<>>
     /\ \E k \in 1..Len(dialogue_data) :
            JaKey(dialogue_data[k]) = RemoveWhitespace(japanese_text))
    => (/\ matched_dialogue # <<>>
        /\ JaKey(matched_dialogue[1]) = RemoveWhitespace(japanese_text))

\* C5 witness: the query with blanks and a tab equals the second record once
\* stripped, the first record's key contains it, and the second is returned
C5_Witness ==
    /\ pc = "returned" /\ japanese_text = " a  b\t"
    /\ Len(dialogue_data) = 2
    /\ dialogue_data[1].lines["ja"] = "abc"
    /\ matched_dialogue = <<dialogue_data[2]>>
    /\ dialogue_data[2].lines["ja"] = "a b"

\* the entry's text has no matching record
Unmatched(text) ==
    FindMatchingDialogue(dialogue_index_map, dialogue_data, text) = <<>>

\* the text entries of all cues, in order
RECURSIVE AllTexts(_)
AllTexts(entries) ==
    IF entries = <<>> THEN <<>> ELSE entries[1].texts \o AllTexts(Tail(entries))

UnmatchedEntries ==
    Cardinality({k \in 1..Len(AllTexts(sequence_data)) :
                    Unmatched(AllTexts(sequence_data)[k].text)})

\* C6: for every rendered language, ja as well as ko and en, the miss counter
\* of the language is the number of cue text entries without a matching record.
C6_MissCounterCountsUnmatched ==
    \A language \in Tags :
        sbv[language] # <<>> => missing_translations[language] = UnmatchedEntries

\* index (1-based) of the timecode line of cue c among the lines of the output
RECURSIVE BlockStart(_, _)
BlockStart(entries, c) ==
    IF c = 1 THEN 1 ELSE BlockStart(entries, c - 1) + Len(entries[c - 1].texts) + 2

\* the first 30 characters of a text (the whole text when it is shorter)
FirstThirty(text) == IF Len(text) <= 30 THEN text ELSE SubSeq(text, 1, 30)

OutputLines(language) == Split(sbv[language][1], "\n")

\* the run has parsed the script to 2 records of different speakers and the
\* timeline to 1 cue of 2 texts, each text being its record's ja text up to
\* whitespace
TwoRecordsOneCue ==
    /\ err = "none"
    /\ Len(dialogues) = 2
    /\ dialogues[1].character # dialogues[2].character
    /\ Len(sequence_data) = 1
    /\ Len(sequence_data[1].texts) = 2
    /\ \A k \in 1..2 :
          RemoveWhitespace(sequence_data[1].texts[k].text) = JaKey(dialogues[k])

\* the last record with the same whitespace-stripped ja text as record k
LastLike(k) ==
    CHOOSE m \in 1..Len(dialogues) :
        /\ JaKey(dialogues[m]) = JaKey(dialogues[k])
        /\ \A q \in (m + 1)..Len(dialogues) : JaKey(dialogues[q]) # JaKey(dialogues[k])

\* C8 as stated: end to end, two groups of two speakers give 2 records, the
\* marker with two tag blocks matching them gives 1 cue of 2 texts, and the
\* output of each language is the timecode line, the two records' variants
\* for the language in cue text order, and a blank separator.
C8_EndToEnd ==
    pc = "done" =>
        /\ TwoRecordsOneCue
        /\ \A language \in Tags :
              OutputLines(language) =
                  << "0:00:24.566,0:00:29.500",
                     dialogues[1].lines[language],
                     dialogues[2].lines[language], "" >>

\* C8 amended: as above, but the caption line of a text is the variant of the
\* last record whose whitespace-stripped ja text equals that of the text's
\* record: the two records' variants in order when the two stripped ja texts
\* differ, twice the second record's variant when they are equal.
C8_EndToEndLastRecordWins ==
    pc = "done" =>
        /\ TwoRecordsOneCue
        /\ \A language \in Tags :
              /\ OutputLines(language) =
                     << "0:00:24.566,0:00:29.500",
                        dialogues[LastLike(1)].lines[language],
                        dialogues[LastLike(2)].lines[language], "" >>
              /\ JaKey(dialogues[1]) # JaKey(dialogues[2]) =>
                     OutputLines(language) =
                         << "0:00:24.566,0:00:29.500",
                            dialogues[1].lines[language],
                            dialogues[2].lines[language], "" >>
              /\ JaKey(dialogues[1]) = JaKey(dialogues[2]) =>
                     OutputLines(language) =
                         << "0:00:24.566,0:00:29.500",
                            dialogues[2].lines[language],
                            dialogues[2].lines[language], "" >>

\* C8 witness: a script with a gap and speakerless continuation lines, a
\* timeline whose second text is broken over two lines, all three outputs
C8_Witness ==
    /\ pc = "done" /\ Len(lines) = 9 /\ Len(seq_lines) = 6
    /\ dialogues = << Record("B", "a b", "1"), Record("A", "abc", "2") >>
    /\ sequence_data[1].texts = << [speaker |-> "V5_1", text |-> "a b"],
                                   [speaker |-> "V7_2", text |-> "a bc"] >>
    /\ sbv = [t \in Tags |->
                 << "0:00:24.566,0:00:29.500\n"
                      \o Record("B", "a b", "1").lines[t] \o "\n"
                      \o Record("A", "abc", "2").lines[t] \o "\n" >>]

\* a required input is missing: not selected, not found or not openable
InputMissing == inputs.data # "ok" \/ inputs.sequence # "ok"

\* C11: when a required input is missing the run fails, and at the moment it
\* fails no output file has been written, neither the dialogue JSON nor a
\* subtitle file.
C11_NoPartialOutput ==
    InputMissing =>
        /\ pc \notin {"sequence_parsed", "done"}
        /\ pc = "raised" => written = <<>>

\* the cursor of parse_file is at a non-blank line with the separator
AtGroupStart ==
    /\ pc = "parse_file" /\ i < Len(lines)
    /\ Strip(lines[i + 1]) # ""
    /\ Contains(Strip(lines[i + 1]), Separator)

\* C12 as stated: a pass of parse_file that starts at a non-blank line with
\* ' : ' leaves the cursor four lines further on, whether or not the four
\* lines gave a record.
C12_GroupSpanConsumed == [][AtGroupStart => i' = i + 4]_vars

\* C12 amended: such a pass leaves the cursor four lines further on exactly
\* when the four lines gave a record (they are all there and none is blank);
\* when they gave none (a blank line in the span, or the input ends before
\* the fourth line) the cursor is one line further on, so the next lines of
\* the span are examined again as starts of groups.
C12_SpanConsumedOnlyWithRecord ==
    [][AtGroupStart =>
          IF FullGroupAtCursor
          THEN Len(dialogues') = Len(dialogues) + 1 /\ i' = i + 4
          ELSE dialogues' = dialogues /\ i' = i + 1]_vars

\* C12 witness: the group at line 0 has a blank second line and gave nothing;
\* its third line then started the group of lines 2..5, which gave a record
C12_Witness ==
    /\ pc = "parse_file" /\ Len(lines) = 6 /\ i = 6
    /\ KindOf(lines[1]) = "speaker" /\ KindOf(lines[2]) = "blank"
    /\ KindOf(lines[3]) = "speaker"
    /\ \A k \in 4..6 : KindOf(lines[k]) = "bare"
    /\ Len(dialogues) = 1
    /\ dialogues[1].character = DataLineOf(lines[3]).speaker

\* the raw line is a timecode marker: ' - ' and ';' and exactly two tokens
IsMarker(raw) ==
    IsTimecodeLine(Strip(raw)) /\ Len(Split(Strip(raw), " - ")) = 2

Markers(ls) == {k \in 1..Len(ls) : IsMarker(ls[k])}

\* the lines after marker k up to the next marker or the end of the input
CueSpan(ls, k) ==
    {t \in (k + 1)..Len(ls) : \A m \in Markers(ls) : m > k => t < m}

\* a text entry was collected at line t: a speaker tag followed at once by a
\* line that was taken as its text
EntryCollectedAt(ls, t) ==
    /\ IsSpeakerTag(Strip(ls[t]))
    /\ CollectEnd(ls, t) > t

\* the markers that got at least one text entry, and the n-th of them
MarkersWithText(ls) ==
    {k \in Markers(ls) : \E t \in CueSpan(ls, k) : EntryCollectedAt(ls, t)}

Nth(S, n) == CHOOSE k \in S : Cardinality({j \in S : j < k}) = n - 1

AtTag ==
    /\ pc = "parse_sequence_file" /\ si < Len(seq_lines)
    /\ ~IsTimecodeLine(Strip(seq_lines[si + 1]))
    /\ IsSpeakerTag(Strip(seq_lines[si + 1]))

\* a line at which the collection of a speaker's text is said to stop:
\* blank, a speaker tag, or a timecode marker of exactly two tokens
StopsText(raw) ==
    Strip(raw) = "" \/ IsSpeakerTag(Strip(raw)) \/ IsMarker(raw)

\* the first line after the tag at t (1-based) that stops the text, or
\* Len(ls) + 1
TextEnd(ls, t) ==
    IF \E k \in (t + 1)..Len(ls) : StopsText(ls[k])
    THEN Nth({k \in (t + 1)..Len(ls) : StopsText(ls[k])}, 1)
    ELSE Len(ls) + 1

\* the stripped lines between the tag and that line
TextOf(ls, t) == [k \in 1..(TextEnd(ls, t) - t - 1) |-> Strip(ls[t + k])]

\* C14: after a speaker tag inside a cue, every following line up to the
\* first blank line, speaker tag or two-token timecode marker is collected,
\* and the lines joined with one space are one text entry appended to the
\* cue; the cursor goes to the line that stopped the collection.
C14_TextCollectedUntilStop ==
    [][(AtTag /\ current_entry # <<>> /\ TextOf(seq_lines, si + 1) # <<>>) =>
          /\ current_entry' # <<>>
          /\ Len(current_entry'[1].texts) = Len(current_entry[1].texts) + 1
          /\ current_entry'[1].texts[Len(current_entry'[1].texts)].text =
                 Join(TextOf(seq_lines, si + 1), " ")
          /\ si' = TextEnd(seq_lines, si + 1) - 1]_vars

\* the composite speaker identifier of a tag line as described: the token
\* before the first comma, '_', the token after it, "1" when there is none
SpeakerId(line) ==
    LET tokens == Split1(line, ",")
        number == Strip(tokens[2])
    IN  Strip(tokens[1]) \o "_" \o (IF number = "" THEN "1" ELSE number)

\* C15: the text entry appended for a speaker tag carries the speaker
\* '<type>_<number>', with number "1" when nothing follows the comma.
C15_SpeakerNumberDefaultsToOne ==
    [][(AtTag /\ current_entry # <<>> /\ current_entry' # <<>>
         /\ Len(current_entry'[1].texts) > Len(current_entry[1].texts)) =>
          current_entry'[1].texts[Len(current_entry'[1].texts)].speaker =
              SpeakerId(Strip(seq_lines[si + 1]))]_vars

\* the records that come first with their whitespace-stripped ja text: the
\* keys of the index in iteration order
FirstOfKey == {k \in 1..Len(dialogue_data) :
                  \A j \in 1..(k - 1) : JaKey(dialogue_data[j]) # JaKey(dialogue_data[k])}

\* the record the index holds for the key of record k: the last with that key
IndexedFor(k) ==
    dialogue_data[CHOOSE m \in 1..Len(dialogue_data) :
        /\ JaKey(dialogue_data[m]) = JaKey(dialogue_data[k])
        /\ \A q \in (m + 1)..Len(dialogue_data) :
              JaKey(dialogue_data[q]) # JaKey(dialogue_data[k])]

FirstFifty(q) == IF Len(q) <= 50 THEN q ELSE SubSeq(q, 1, 50)

\* the keys that satisfy the fallback predicate for the stripped query q
FallbackKeys(q) ==
    {k \in FirstOfKey :
        \/ Contains(JaKey(dialogue_data[k]), FirstFifty(q))
        \/ Contains(q, JaKey(dialogue_data[k]))}

\* C16: without an exact key, find_matching_dialogue returns the record of
\* the first key, in index order, that contains the first 50 characters of
\* the stripped query or is contained in the stripped query, and None exactly
\* when there is no such key; with an exact key it returns that key's record.
C16_FirstFallbackKeyWins ==
    pc = "returned" =>
        LET q == RemoveWhitespace(japanese_text) IN
        IF \E k \in 1..Len(dialogue_data) : JaKey(dialogue_data[k]) = q
        THEN /\ matched_dialogue # <<>>
             /\ JaKey(matched_dialogue[1]) = q
        ELSE IF FallbackKeys(q) = {}
        THEN matched_dialogue = <<>>
        ELSE matched_dialogue = <<IndexedFor(Nth(FallbackKeys(q), 1))>>

\* C16 witness: a query of 52 characters with no exact key; only its first
\* 50 characters are in the second record's text, and that record is returned
C16_Witness ==
    /\ pc = "returned" /\ japanese_text = LongQuery
    /\ Len(dialogue_data) = 2
    /\ dialogue_data[1].lines["ja"] = "abc"
    /\ dialogue_data[2].lines["ja"] = LongKey
    /\ ~Contains(LongKey, LongQuery)
    /\ matched_dialogue = <<dialogue_data[2]>>

\* C17: the index has one item per whitespace-stripped ja text, holding the
\* 0-based position of the last record with that text, and
\* find_matching_dialogue on such a text returns that last record.
C17_LastRecordOfKeyIndexed ==
    /\ \A k \in 1..Len(dialogue_data) :
          \E p \in 1..Len(dialogue_index_map) :
              /\ dialogue_index_map[p].key = JaKey(dialogue_data[k])
              /\ dialogue_data[dialogue_index_map[p].idx + 1] = IndexedFor(k)
    /\ \A p, q \in 1..Len(dialogue_index_map) :
          dialogue_index_map[p].key = dialogue_index_map[q].key => p = q
    /\ Len(dialogue_index_map) = Cardinality(FirstOfKey)
    /\ pc = "returned" =>
          \A k \in 1..Len(dialogue_data) :
              JaKey(dialogue_data[k]) = RemoveWhitespace(japanese_text) =>
                  matched_dialogue = <<IndexedFor(k)>>

\* C17 witness: two different records with the same stripped ja text, and the
\* query for it answered with the second
C17_Witness ==
    /\ pc = "returned" /\ Len(dialogue_data) = 2
    /\ JaKey(dialogue_data[1]) = JaKey(dialogue_data[2])
    /\ dialogue_data[1] # dialogue_data[2]
    /\ Len(dialogue_index_map) = 1
    /\ RemoveWhitespace(japanese_text) = JaKey(dialogue_data[1])
    /\ matched_dialogue = <<dialogue_data[2]>>

\* a line at which the inner loop of parse_sequence_file stops
EndsText(raw) ==
    Strip(raw) = "" \/ IsSpeakerTag(Strip(raw)) \/ IsTimecodeLine(Strip(raw))

\* C18: both scans end on every input (parse_file by its return,
\* parse_sequence_file by its return or by the exception of a marker that
\* does not convert) and their cursors only go forward:
\* a pass of parse_file moves the cursor by 4 after a record and by 1
\* otherwise; a pass of parse_sequence_file moves it by at least 1, and after
\* a speaker tag to the first line that is not text of the tag (the lines in
\* between, and only they, are the text of an appended entry), so no line is
\* text of two entries.
C18_ScansEndCursorForward ==
    /\ (pc = "parse_file") ~> (pc = "parsed")
    /\ (pc = "parse_sequence_file") ~> (pc \in {"sequence_parsed", "raised"})
    /\ [](i <= Len(lines) + 3)
    /\ [](si <= Len(seq_lines))
    /\ [][(pc = "parse_sequence_file" /\ si >= Len(seq_lines)) =>
             pc' = "sequence_parsed"]_vars
    /\ [][(pc = "parse_file" /\ pc' = pc) =>
             i' = IF Len(dialogues') > Len(dialogues) THEN i + 4 ELSE i + 1]_vars
    /\ [][(pc = "parse_sequence_file" /\ pc' = pc) =>
             /\ si' >= si + 1
             /\ AtTag =>
                   /\ \A k \in (si + 2)..si' : ~EndsText(seq_lines[k])
                   /\ si' < Len(seq_lines) => EndsText(seq_lines[si' + 1])
                   /\ (current_entry' # current_entry) =>
                         current_entry'[1].texts[Len(current_entry'[1].texts)].text
                            = Join([k \in 1..(si' - si - 1) |->
                                       Strip(seq_lines[si + 1 + k])], " ")
             /\ ~AtTag => si' = si + 1 /\ (current_entry' # <<>> /\ current_entry # <<>>
                                            => current_entry'[1].texts \in
                                                 {<<>>, current_entry[1].texts})]_vars

\* C18 witness: the scan of a sequence file has ended after a tag whose two
\* text lines were taken together, and the cursor went from the tag to the
\* end of the input
C18_Witness ==
    /\ pc = "sequence_parsed" /\ Len(seq_lines) = 4 /\ si = 4
    /\ IsMarker(seq_lines[1]) /\ IsSpeakerTag(Strip(seq_lines[2]))
    /\ Len(sequence_data) = 1
    /\ Len(sequence_data[1].texts) = 1
    /\ sequence_data[1].texts[1].text = "x y x y"

\* the four fields of an editor timecode, as integers
Fields(t) == [k \in 1..FieldCount |-> DigitsVal(Split(t, ";")[k], 0)]

\* HH;MM;SS;FF with the frame below 30 and minutes and seconds below 60
InRange(t) ==
    /\ UnsignedFields(t)
    /\ Fields(t)[2] < 60 /\ Fields(t)[3] < 60
    /\ Fields(t)[4] < FramesPerSecond

\* a is before b, field by field from the left
RECURSIVE Before(_, _)
Before(a, b) ==
    /\ Len(a) > 0
    /\ Head(a) < Head(b) \/ (Head(a) = Head(b) /\ Before(Tail(a), Tail(b)))

\* the fields H, MM, SS, mmm of a subtitle time H:MM:SS.mmm, as written
SbvFields(o) ==
    LET parts == Split(o, ":")
        tail  == Split(parts[3], ".")
    IN  <<parts[1], parts[2], tail[1], tail[2]>>

SbvValues(o) == [k \in 1..4 |-> DigitsVal(SbvFields(o)[k], 0)]

\* C19: for a timecode with its frame in 0..29 and its minutes and seconds in
\* 0..59 the millisecond field of the result is three digits, 000..999, and
\* the conversion keeps the order strictly: a timecode that is earlier field
\* by field converts to a strictly earlier subtitle time, so two different
\* times never convert to the same one.
C19_OrderPreserved ==
    (pc = "returned" /\ InRange(premiere_time)) =>
        /\ Len(Split(tc_out, ":")) = 3
        /\ Len(Split(Split(tc_out, ":")[3], ".")) = 2
        /\ Len(SbvFields(tc_out)[4]) = 3
        /\ AllDigits(SbvFields(tc_out)[4])
        /\ SbvValues(tc_out)[4] \in 0..999
        /\ \A t \in {u \in WellFormedTimecodes : InRange(u)} :
              /\ Before(Fields(premiere_time), Fields(t)) =>
                    Before(SbvValues(tc_out), SbvValues(convert_timecode(t)))
              /\ Before(Fields(t), Fields(premiere_time)) =>
                    Before(SbvValues(convert_timecode(t)), SbvValues(tc_out))

\* C19 witness: the last frame of a second, converted to a time below the
\* first frame of the next second
C19_Witness ==
    /\ pc = "returned" /\ premiere_time = "00;59;24;29"
    /\ tc_out = "0:59:24.966"
    /\ Before(SbvValues(tc_out), SbvValues(convert_timecode("1;00;00;00")))

=============================================================================
